---- MODULE Spec2Model ----
(***************************************************************************)
(* A model of webghost (src/index.ts): the bridge between one PTY host     *)
(* subprocess and any number of websocket viewers.                         *)
(*                                                                         *)
(* Text is a sequence of code points, bytes are integers 0..255, a base64  *)
(* string is a sequence of sextets 0..63 with Pad for "=".                 *)
(***************************************************************************)
EXTENDS Integers, Sequences, FiniteSets, TLC

(***************************************************************************)
(* Bounds of the model.                                                    *)
(***************************************************************************)
\* longest child output, in characters
MaxChars == 2
\* longest argument list handed to parseArgs
MaxArgs == 3
\* most messages the viewers get written to the host's stdin
MaxHostIn == 2
\* most viewer connections accepted in one run
MaxViewers == 2
\* most junk lines (not json, or blank) the host prints
MaxJunk == 1

(***************************************************************************)
(* Sequences.                                                              *)
(***************************************************************************)
Drop(s, n) == SubSeq(s, n + 1, Len(s))

Take(s, n) == SubSeq(s, 1, n)

SeqsUpTo(S, n) == UNION {[1..k -> S] : k \in 0..n}

(***************************************************************************)
(* The output codec: what the child writes (UTF-8), how the host wraps it  *)
(* (base64) and how the bridge unwraps and decodes it.                     *)
(***************************************************************************)
\* U+FFFD, what TextDecoder emits for a malformed sequence
ReplacementChar == 65533

\* the characters the child prints: "a", e-acute (2 bytes), euro sign (3 bytes)
Chars == {97, 233, 8364}

\* the UTF-8 bytes of one code point below U+10000
Utf8Char(cp) ==
  IF cp < 128 THEN <<cp>>
  ELSE IF cp < 2048 THEN <<192 + (cp \div 64), 128 + (cp % 64)>>
  ELSE <<224 + (cp \div 4096), 128 + ((cp \div 64) % 64), 128 + (cp % 64)>>

RECURSIVE Utf8Encode(_)
Utf8Encode(text) ==
  IF text = <<>> THEN <<>> ELSE Utf8Char(Head(text)) \o Utf8Encode(Tail(text))

Pad == 64

\* base64 of a byte string, as the host's json line carries it
RECURSIVE B64Encode(_)
B64Encode(bytes) ==
  IF bytes = <<>> THEN <<>>
  ELSE IF Len(bytes) = 1 THEN
    <<bytes[1] \div 4, (bytes[1] % 4) * 16, Pad, Pad>>
  ELSE IF Len(bytes) = 2 THEN
    <<bytes[1] \div 4, (bytes[1] % 4) * 16 + (bytes[2] \div 16),
      (bytes[2] % 16) * 4, Pad>>
  ELSE
    <<bytes[1] \div 4, (bytes[1] % 4) * 16 + (bytes[2] \div 16),
      (bytes[2] % 16) * 4 + (bytes[3] \div 64), bytes[3] % 64>>
    \o B64Encode(Drop(bytes, 3))

\* Buffer.from(data, "base64"): sextets up to the first pad, four to three bytes
RECURSIVE B64Decode(_)
B64Decode(b64) ==
  IF Len(b64) < 2 \/ b64[1] = Pad \/ b64[2] = Pad THEN <<>>
  ELSE IF Len(b64) = 2 \/ b64[3] = Pad THEN
    <<b64[1] * 4 + (b64[2] \div 16)>>
  ELSE IF Len(b64) = 3 \/ b64[4] = Pad THEN
    <<b64[1] * 4 + (b64[2] \div 16), (b64[2] % 16) * 16 + (b64[3] \div 4)>>
  ELSE
    <<b64[1] * 4 + (b64[2] \div 16), (b64[2] % 16) * 16 + (b64[3] \div 4),
      (b64[3] % 4) * 64 + b64[4]>>
    \o B64Decode(Drop(b64, 4))

\* the state of a TextDecoder("utf-8") between two decode calls
DecoderInit == [cp |-> 0, seen |-> 0, needed |-> 0, lower |-> 128, upper |-> 191]

\* one byte through the WHATWG utf-8 decoder: the new state and the text emitted
RECURSIVE DecodeByte(_, _)
DecodeByte(d, b) ==
  IF d.needed = 0 THEN
    IF b <= 127 THEN [st |-> d, out |-> <<b>>]
    ELSE IF b >= 194 /\ b <= 223 THEN
      [st |-> [d EXCEPT !.needed = 1, !.cp = b % 32], out |-> <<>>]
    ELSE IF b >= 224 /\ b <= 239 THEN
      [st |-> [d EXCEPT !.needed = 2, !.cp = b % 16,
                        !.lower = IF b = 224 THEN 160 ELSE 128,
                        !.upper = IF b = 237 THEN 159 ELSE 191],
       out |-> <<>>]
    ELSE IF b >= 240 /\ b <= 244 THEN
      [st |-> [d EXCEPT !.needed = 3, !.cp = b % 8,
                        !.lower = IF b = 240 THEN 144 ELSE 128,
                        !.upper = IF b = 244 THEN 143 ELSE 191],
       out |-> <<>>]
    ELSE [st |-> d, out |-> <<ReplacementChar>>]
  ELSE IF b < d.lower \/ b > d.upper THEN
    \* the byte is put back and read again by a fresh decoder
    LET again == DecodeByte(DecoderInit, b)
    IN  [st |-> again.st, out |-> <<ReplacementChar>> \o again.out]
  ELSE
    LET cp == d.cp * 64 + (b % 64)
    IN  IF d.seen + 1 = d.needed
        THEN [st |-> DecoderInit, out |-> <<IF cp < 65536 THEN cp ELSE ReplacementChar>>]
        ELSE [st |-> [d EXCEPT !.cp = cp, !.seen = d.seen + 1,
                               !.lower = 128, !.upper = 191],
              out |-> <<>>]

\* outputDecoder.decode(bytes, { stream: true })
RECURSIVE DecodeStream(_, _)
DecodeStream(d, bytes) ==
  IF bytes = <<>> THEN [st |-> d, out |-> <<>>]
  ELSE LET one == DecodeByte(d, Head(bytes))
           rest == DecodeStream(one.st, Tail(bytes))
       IN  [st |-> rest.st, out |-> one.out \o rest.out]

\* outputDecoder.decode(): the end of the stream, a pending sequence is malformed
DecodeFlush(d) ==
  [st |-> DecoderInit,
   out |-> IF d.needed # 0 THEN <<ReplacementChar>> ELSE <<>>]

(***************************************************************************)
(* The session: the PTY host subprocess, the read loop over its stdout,    *)
(* the viewers and the shutdown paths.                                     *)
(***************************************************************************)
VARIABLES
  childBytes,     \* what the child process prints in this run, as bytes
  emitted,        \* how many of them the host has wrapped into output lines
  junk,           \* junk lines printed by the host so far
  hostPhase,      \* "running" | "exiting" (exit line written) | "gone"
  exitCode,       \* subprocess.exitCode once the host is gone: "0" | "1" | "null"
  pipe,           \* the host's stdout, written and not yet read
  buffer,         \* forwardOutput's buffer: the line not yet ended
  readerDone,     \* forwardOutput has left its loop
  exitSent,       \* the flag of startPtyProxy
  exitedHandled,  \* the subprocess.exited callback has run
  outputDecoder,  \* the state of the streaming TextDecoder
  clients,        \* the Set of registered sockets, in insertion order
  conn,           \* per socket: "new" | "open" | "broken" | "closed"
  received,       \* per socket: the frames written to it
  bcastLog,       \* every frame handed to broadcast, in call order
  regAt,          \* per socket: Len(bcastLog) when it was registered, else -1
  endAt,          \* per socket: Len(bcastLog) when it broke or closed, else -1
  broadcastThrew, \* an exception has left broadcast
  shuttingDown,   \* the flag of stopServerSoon
  timersArmed,    \* setTimeout calls made by stopServerSoon
  timersFired,    \* of which have run
  serverStopped,  \* server.stop() has been called
  killSignalled,  \* subprocess.kill() has reached a live host
  stopRaised,     \* an exception has left ptyProxy.stop()
  bridgeExited,   \* the bridge process has run its exit hook
  hostIn,         \* the lines written to the host's stdin
  messageRaised,  \* an exception has left handleClientMessage
  argv,           \* process.argv.slice(2)
  cli             \* where the start of the program has got to

hostVars == <<childBytes, emitted, junk, hostPhase, exitCode, pipe>>

readVars == <<buffer, readerDone, exitSent, exitedHandled, outputDecoder>>

hubVars == <<clients, conn, received, bcastLog, regAt, endAt, broadcastThrew>>

stopVars == <<shuttingDown, timersArmed, timersFired, serverStopped,
              killSignalled, stopRaised, bridgeExited>>

inVars == <<hostIn, messageRaised>>

cliVars == <<argv, cli>>

vars == <<hostVars, readVars, hubVars, stopVars, inVars, cliVars>>

Viewers == 1..MaxViewers

(***************************************************************************)
(* Messages.                                                               *)
(***************************************************************************)
\* a ProxyEvent line of the host, and the newline that ends it
OutputLine(b64) ==
  [tok |-> "json", type |-> "output", data |-> b64, code |-> "", signal |-> ""]

ExitLine(code, signal) ==
  [tok |-> "json", type |-> "exit", data |-> <<>>, code |-> code, signal |-> signal]

JunkLine == [tok |-> "junk", type |-> "", data |-> <<>>, code |-> "", signal |-> ""]

NL == [tok |-> "nl", type |-> "", data |-> <<>>, code |-> "", signal |-> ""]

\* a ServerMessage as JSON.stringify writes it: an undefined member is left out
OutputFrame(text) ==
  [type |-> "output", data |-> text, code |-> "", signal |-> ""]

\* x ?? undefined
OrUndefined(x) == IF x = "null" THEN "undefined" ELSE x

ExitFrame(code, signal) ==
  [type |-> "exit", data |-> <<>>, code |-> OrUndefined(code),
   signal |-> OrUndefined(signal)]

(***************************************************************************)
(* The bridge's handlers as functions of the part of the state they        *)
(* change: a record s with the decoder, the Set of sockets, the sockets'   *)
(* frames, the broadcast log and the shutdown flag and timer.              *)
(***************************************************************************)
Bridge ==
  [dec |-> outputDecoder, clients |-> clients, recv |-> received,
   log |-> bcastLog, threw |-> broadcastThrew, shuttingDown |-> shuttingDown,
   timersArmed |-> timersArmed]

\* client.send on a socket whose transport has failed throws
SendThrows(c) == conn[c] = "broken"

\* broadcast without its try/catch: the first failing send ends the loop
RECURSIVE SendAllNoCatch(_, _, _)
SendAllNoCatch(s, cs, frame) ==
  IF cs = <<>> THEN s
  ELSE IF SendThrows(Head(cs)) THEN [s EXCEPT !.threw = TRUE]
  ELSE SendAllNoCatch([s EXCEPT !.recv[Head(cs)] = Append(@, frame)],
                      Tail(cs), frame)

Remove(cs, v) == SelectSeq(cs, LAMBDA c : c # v)

\* broadcast taking a socket out of the Set when the send to it fails
RECURSIVE SendAllRemove(_, _, _)
SendAllRemove(s, cs, frame) ==
  IF cs = <<>> THEN s
  ELSE IF SendThrows(Head(cs))
  THEN SendAllRemove([s EXCEPT !.clients = Remove(@, Head(cs))], Tail(cs), frame)
  ELSE SendAllRemove([s EXCEPT !.recv[Head(cs)] = Append(@, frame)],
                     Tail(cs), frame)

\* the loop of broadcast over the Set, a failing send caught and ignored
RECURSIVE SendAll(_, _, _)
SendAll(s, cs, frame) ==
  IF cs = <<>> THEN s
  ELSE IF SendThrows(Head(cs)) THEN SendAll(s, Tail(cs), frame)
  ELSE SendAll([s EXCEPT !.recv[Head(cs)] = Append(@, frame)], Tail(cs), frame)

\* broadcast that misses the socket registered last
broadcastSkipNewest(s, frame) ==
  SendAll([s EXCEPT !.log = Append(@, frame)],
          Take(s.clients, Len(s.clients) - 1), frame)

broadcast(s, frame) ==
  SendAll([s EXCEPT !.log = Append(@, frame)], s.clients, frame)

\* stopServerSoon without its flag: every call arms a timer
stopServerSoonEach(s) ==
  [s EXCEPT !.shuttingDown = TRUE, !.timersArmed = @ + 1]

stopServerSoon(s) ==
  IF s.shuttingDown THEN s
  ELSE [s EXCEPT !.shuttingDown = TRUE, !.timersArmed = @ + 1]

\* the callback without its tests of the decoded text's length
onEventNoLengthTest(s, event) ==
  IF event.type = "output" THEN
    LET r == DecodeStream(s.dec, B64Decode(event.data))
    IN  broadcast([s EXCEPT !.dec = r.st], OutputFrame(r.out))
  ELSE IF event.type = "exit" THEN
    LET r == DecodeFlush(s.dec)
        s2 == broadcast([s EXCEPT !.dec = r.st], OutputFrame(r.out))
    IN  stopServerSoon(broadcast(s2, ExitFrame(event.code, event.signal)))
  ELSE s

\* the callback given to startPtyProxy
onEvent(s, event) ==
  IF event.type = "output" THEN
    LET r == DecodeStream(s.dec, B64Decode(event.data))
        s1 == [s EXCEPT !.dec = r.st]
    IN  IF Len(r.out) > 0 THEN broadcast(s1, OutputFrame(r.out)) ELSE s1
  ELSE IF event.type = "exit" THEN
    LET r == DecodeFlush(s.dec)
        s1 == [s EXCEPT !.dec = r.st]
        s2 == IF Len(r.out) > 0 THEN broadcast(s1, OutputFrame(r.out)) ELSE s1
    IN  stopServerSoon(broadcast(s2, ExitFrame(event.code, event.signal)))
  ELSE s

\* the inner loop's body with a parse failure taken for the end of the host
ForwardLineFatal(st, line) ==
  IF line = <<>> THEN st
  ELSE IF line[1].tok # "json"
  THEN [s |-> onEvent(st.s, ExitLine("null", "null")), exitSent |-> TRUE]
  ELSE [s |-> onEvent(st.s, line[1]),
        exitSent |-> st.exitSent \/ line[1].type = "exit"]

\* the body of forwardOutput's inner loop for one line
ForwardLine(st, line) ==
  IF line = <<>> THEN st
  ELSE IF line[1].tok # "json" THEN st
  ELSE [s |-> onEvent(st.s, line[1]),
        exitSent |-> st.exitSent \/ line[1].type = "exit"]

NewlineIndex(buf) ==
  IF \E i \in 1..Len(buf) : buf[i].tok = "nl"
  THEN CHOOSE i \in 1..Len(buf) :
         buf[i].tok = "nl" /\ \A j \in 1..(i - 1) : buf[j].tok # "nl"
  ELSE 0

\* forwardOutput's inner loop: every complete line of the buffer, in order
RECURSIVE ForwardLines(_, _)
ForwardLines(st, buf) ==
  LET i == NewlineIndex(buf)
  IN  IF i = 0 THEN [st |-> st, buffer |-> buf]
      ELSE ForwardLines(ForwardLine(st, Take(buf, i - 1)), Drop(buf, i))

Commit(s) ==
  /\ outputDecoder' = s.dec
  /\ clients' = s.clients
  /\ received' = s.recv
  /\ bcastLog' = s.log
  /\ broadcastThrew' = s.threw
  /\ shuttingDown' = s.shuttingDown
  /\ timersArmed' = s.timersArmed

(***************************************************************************)
(* ptyProxy.stop(), as a function of the part of the state it changes.     *)
(***************************************************************************)
Stopper == [killSignalled |-> killSignalled, stopRaised |-> stopRaised]

\* stop without its try/catch: kill on a subprocess that is gone may throw
stopNoCatch(p) ==
  IF hostPhase = "gone" THEN [p EXCEPT !.stopRaised = TRUE]
  ELSE [p EXCEPT !.killSignalled = TRUE]

\* subprocess.kill() inside try/catch: a signal to a live host, nothing otherwise
stop(p) ==
  IF hostPhase = "gone" THEN p
  ELSE [p EXCEPT !.killSignalled = TRUE]

CommitStop(p) ==
  /\ killSignalled' = p.killSignalled
  /\ stopRaised' = p.stopRaised

(***************************************************************************)
(* The PTY host (pty-proxy.py) and the child inside it.                    *)
(***************************************************************************)
\* the host wraps the next k bytes the child printed into one output line
HostEmitOutput ==
  /\ hostPhase = "running"
  /\ \E k \in 1..(Len(childBytes) - emitted) :
       /\ pipe' = pipe \o <<OutputLine(B64Encode(SubSeq(childBytes, emitted + 1, emitted + k))), NL>>
       /\ emitted' = emitted + k
  /\ UNCHANGED <<childBytes, junk, hostPhase, exitCode>>
  /\ UNCHANGED <<readVars, hubVars, stopVars, inVars, cliVars>>

\* the host prints a line that is no json
HostEmitJunk ==
  /\ hostPhase = "running"
  /\ junk < MaxJunk
  /\ junk' = junk + 1
  /\ pipe' = pipe \o <<JunkLine, NL>>
  /\ UNCHANGED <<childBytes, emitted, hostPhase, exitCode>>
  /\ UNCHANGED <<readVars, hubVars, stopVars, inVars, cliVars>>

\* the child has ended: the host reports it in an exit line
HostEmitExit ==
  /\ hostPhase = "running"
  /\ emitted = Len(childBytes)
  /\ \E e \in {<<"0", "null">>, <<"null", "9">>} :
       pipe' = pipe \o <<ExitLine(e[1], e[2]), NL>>
  /\ hostPhase' = "exiting"
  /\ UNCHANGED <<childBytes, emitted, junk, exitCode>>
  /\ UNCHANGED <<readVars, hubVars, stopVars, inVars, cliVars>>

\* the host process ends after its exit line
HostExit ==
  /\ hostPhase = "exiting"
  /\ hostPhase' = "gone"
  /\ exitCode' = "0"
  /\ UNCHANGED <<childBytes, emitted, junk, pipe>>
  /\ UNCHANGED <<readVars, hubVars, stopVars, inVars, cliVars>>

\* the host process is ended by the signal of kill(), or fails on its own
HostDie ==
  /\ hostPhase \in {"running", "exiting"}
  /\ \/ killSignalled /\ exitCode' = "null"
     \/ hostPhase = "running" /\ exitCode' = "1"
  /\ hostPhase' = "gone"
  /\ UNCHANGED <<childBytes, emitted, junk, pipe>>
  /\ UNCHANGED <<readVars, hubVars, stopVars, inVars, cliVars>>

(***************************************************************************)
(* startPtyProxy: the read loop and the exited callback.                   *)
(***************************************************************************)
\* one reader.read() that returns k units of the pipe, and the inner loop on them
ReadChunk ==
  /\ ~bridgeExited
  /\ ~readerDone
  /\ \E k \in 1..Len(pipe) :
       LET r == ForwardLines([s |-> Bridge, exitSent |-> exitSent],
                             buffer \o Take(pipe, k))
       IN  /\ pipe' = Drop(pipe, k)
           /\ buffer' = r.buffer
           /\ exitSent' = r.st.exitSent
           /\ Commit(r.st.s)
  /\ UNCHANGED <<childBytes, emitted, junk, hostPhase, exitCode>>
  /\ UNCHANGED <<readerDone, exitedHandled>>
  /\ UNCHANGED <<conn, regAt, endAt>>
  /\ UNCHANGED <<timersFired, serverStopped, killSignalled,
                 stopRaised, bridgeExited>>
  /\ UNCHANGED <<inVars, cliVars>>

\* reader.read() returns done: the host is gone and its stdout is drained
ReadDone ==
  /\ ~bridgeExited
  /\ ~readerDone
  /\ pipe = <<>>
  /\ hostPhase = "gone"
  /\ readerDone' = TRUE
  /\ UNCHANGED <<buffer, exitSent, exitedHandled, outputDecoder>>
  /\ UNCHANGED <<hostVars, hubVars, stopVars, inVars, cliVars>>

\* an exited callback that reports nothing
ExitedNoEvent ==
  /\ ~bridgeExited
  /\ hostPhase = "gone"
  /\ ~exitedHandled
  /\ exitedHandled' = TRUE
  /\ UNCHANGED <<buffer, readerDone, exitSent, outputDecoder>>
  /\ UNCHANGED <<hostVars, hubVars, stopVars, inVars, cliVars>>

\* the subprocess.exited callback
Exited ==
  /\ ~bridgeExited
  /\ hostPhase = "gone"
  /\ ~exitedHandled
  /\ exitedHandled' = TRUE
  /\ IF ~exitSent
     THEN Commit(onEvent(Bridge, ExitLine(exitCode, "null")))
     ELSE Commit(Bridge)
  /\ UNCHANGED <<buffer, readerDone, exitSent>>
  /\ UNCHANGED <<conn, regAt, endAt>>
  /\ UNCHANGED <<timersFired, serverStopped, killSignalled,
                 stopRaised, bridgeExited>>
  /\ UNCHANGED <<hostVars, inVars, cliVars>>

(***************************************************************************)
(* The websocket handlers.                                                 *)
(***************************************************************************)
\* websocket.open that also replays what was broadcast so far
openReplay(v) ==
  /\ clients' = Append(clients, v)
  /\ received' = [received EXCEPT ![v] = <<OutputFrame(<<>>)>> \o bcastLog]

\* websocket.open that also tells the socket of an exit broadcast before
openReplayExit(v) ==
  /\ clients' = Append(clients, v)
  /\ received' = [received EXCEPT
       ![v] = <<OutputFrame(<<>>)>>
                \o SelectSeq(bcastLog, LAMBDA f : f.type = "exit")]

\* websocket.open
open(v) ==
  /\ clients' = Append(clients, v)
  /\ received' = [received EXCEPT ![v] = Append(@, OutputFrame(<<>>))]

\* a viewer connects: the sockets are numbered in the order they are accepted
Open ==
  /\ ~bridgeExited
  /\ ~serverStopped
  /\ \E v \in Viewers :
       /\ conn[v] = "new"
       /\ \A u \in Viewers : u < v => conn[u] # "new"
       /\ open(v)
       /\ conn' = [conn EXCEPT ![v] = "open"]
       /\ regAt' = [regAt EXCEPT ![v] = Len(bcastLog)]
  /\ UNCHANGED <<bcastLog, endAt, broadcastThrew>>
  /\ UNCHANGED <<hostVars, readVars, stopVars, inVars, cliVars>>

\* a viewer's transport fails; its close event has not been delivered yet
Break ==
  /\ \E v \in Viewers :
       /\ conn[v] = "open"
       /\ conn' = [conn EXCEPT ![v] = "broken"]
       /\ endAt' = [endAt EXCEPT ![v] = Len(bcastLog)]
  /\ UNCHANGED <<clients, received, bcastLog, regAt, broadcastThrew>>
  /\ UNCHANGED <<hostVars, readVars, stopVars, inVars, cliVars>>

\* websocket.close
Close ==
  /\ ~bridgeExited
  /\ \E v \in Viewers :
       /\ conn[v] \in {"open", "broken"}
       /\ clients' = Remove(clients, v)
       /\ conn' = [conn EXCEPT ![v] = "closed"]
       /\ endAt' = [endAt EXCEPT ![v] = IF @ = -1 THEN Len(bcastLog) ELSE @]
  /\ UNCHANGED <<received, bcastLog, regAt, broadcastThrew>>
  /\ UNCHANGED <<hostVars, readVars, stopVars, inVars, cliVars>>

(***************************************************************************)
(* Messages from the viewers.  A JSON number is a count of halves, so that *)
(* 0.5 and 1.5 can be told from 0 and 1; what Number.isFinite rejects      *)
(* (Infinity from 1e999, a string, null, a missing member) is not finite.  *)
(***************************************************************************)
Halves == {-2, 0, 1, 2, 3, 48, 160}

JsValues == {[fin |-> FALSE, h |-> 0]} \cup {[fin |-> TRUE, h |-> x] : x \in Halves}

NoValue == [fin |-> FALSE, h |-> 0]

\* what a viewer may send: text that is no JSON, the JSON null, an object of
\* another type, an input frame, a resize frame
Payloads ==
  {[json |-> j, type |-> "", data |-> <<>>, cols |-> NoValue, rows |-> NoValue] :
     j \in {"invalid", "null"}}
  \cup {[json |-> "object", type |-> "ping", data |-> <<>>, cols |-> NoValue,
         rows |-> NoValue]}
  \cup {[json |-> "object", type |-> "input", data |-> d, cols |-> NoValue,
         rows |-> NoValue] : d \in {<<97>>, <<8364>>}}
  \cup {[json |-> "object", type |-> "resize", data |-> <<>>, cols |-> c, rows |-> r] :
         c \in JsValues, r \in JsValues}

\* Math.floor of a finite number
Floor(x) == x.h \div 2

\* x > 0
Positive(x) == x.h > 0

\* send: one line on the host's stdin
send(m, payload) == [m EXCEPT !.hostIn = Append(@, payload)]

\* ptyProxy.write
write(m, data) ==
  send(m, [type |-> "input", data |-> B64Encode(Utf8Encode(data)),
           cols |-> 0, rows |-> 0])

\* ptyProxy.resize
resize(m, cols, rows) ==
  send(m, [type |-> "resize", data |-> <<>>, cols |-> cols, rows |-> rows])

Inbound == [hostIn |-> hostIn, raised |-> messageRaised]

handleClientMessage(m, raw) ==
  IF raw.json = "invalid" THEN m
  ELSE IF raw.json = "null" THEN [m EXCEPT !.raised = TRUE]
  ELSE IF raw.type = "input" THEN write(m, raw.data)
  ELSE IF raw.type = "resize" THEN
    IF raw.cols.fin /\ raw.rows.fin /\ Positive(raw.cols) /\ Positive(raw.rows)
    THEN resize(m, Floor(raw.cols), Floor(raw.rows))
    ELSE m
  ELSE m

\* websocket.message for the payload raw of viewer v
MessageOf(v, raw) ==
  /\ ~bridgeExited
  /\ Len(hostIn) < MaxHostIn
  /\ conn[v] = "open"
  /\ LET m == handleClientMessage(Inbound, raw)
     IN  /\ hostIn' = m.hostIn
         /\ messageRaised' = m.raised
  /\ UNCHANGED <<hostVars, readVars, hubVars, stopVars, cliVars>>

\* websocket.message
Message == \E v \in Viewers, raw \in Payloads : MessageOf(v, raw)

(***************************************************************************)
(* The ways down.                                                          *)
(***************************************************************************)
\* the callback of stopServerSoon's timer: server?.stop(); ptyProxy.stop()
TimerFire ==
  /\ ~bridgeExited
  /\ timersFired < timersArmed
  /\ timersFired' = timersFired + 1
  /\ serverStopped' = TRUE
  /\ CommitStop(stop(Stopper))
  /\ UNCHANGED <<shuttingDown, timersArmed, bridgeExited>>
  /\ UNCHANGED <<hostVars, readVars, hubVars, inVars, cliVars>>

\* SIGINT or SIGTERM: ptyProxy.stop(); server?.stop()
handleShutdown ==
  /\ ~bridgeExited
  /\ CommitStop(stop(Stopper))
  /\ serverStopped' = TRUE
  /\ UNCHANGED <<shuttingDown, timersArmed, timersFired, bridgeExited>>
  /\ UNCHANGED <<hostVars, readVars, hubVars, inVars, cliVars>>

\* the bridge has nothing left to wait for and exits: process.on("exit")
ExitHook ==
  /\ ~bridgeExited
  /\ serverStopped
  /\ hostPhase = "gone"
  /\ readerDone
  /\ exitedHandled
  /\ timersFired = timersArmed
  /\ clients = <<>>
  /\ CommitStop(stop(Stopper))
  /\ bridgeExited' = TRUE
  /\ UNCHANGED <<shuttingDown, timersArmed, timersFired, serverStopped>>
  /\ UNCHANGED <<hostVars, readVars, hubVars, inVars, cliVars>>

(***************************************************************************)
(* The command line.  A number is a count of halves, as for the viewers'   *)
(* messages; cli is the program's progress from its first line on.         *)
(***************************************************************************)
Tokens ==
  {"--", "--port", "-p", "--no-open", "--help", "-h", "bash",
   "8081", "65535", "0", "65536", "80.5", ""}

DefaultPort == 8080

MaxPort == 65535

\* the text usage() prints, word by word
UsageText ==
  <<"Usage:", "webify", "[--port", "<port>]", "[--no-open]", "--", "<command>",
    "[args...]", "Examples:", "webify", "--", "bash", "webify", "--port",
    "8081", "--", "claude", "--dangerously-skip-permissions">>

\* Number(next) for the tokens above: NaN for what is no numeric literal
Number(tok) ==
  CASE tok = "8081" -> [fin |-> TRUE, h |-> 16162]
    [] tok = "65535" -> [fin |-> TRUE, h |-> 131070]
    [] tok = "0" -> [fin |-> TRUE, h |-> 0]
    [] tok = "65536" -> [fin |-> TRUE, h |-> 131072]
    [] tok = "80.5" -> [fin |-> TRUE, h |-> 161]
    [] tok = "" -> [fin |-> TRUE, h |-> 0]
    [] OTHER -> [fin |-> FALSE, h |-> 0]

\* Number.isInteger
IsInteger(x) == x.fin /\ x.h % 2 = 0

\* the port test without its upper limit
InvalidPortNoLimit(port) == ~IsInteger(port) \/ port.h <= 0

\* !Number.isInteger(port) || port <= 0 || port > 65535
InvalidPort(port) == ~IsInteger(port) \/ port.h <= 0 \/ port.h > 2 * MaxPort

CliStart ==
  [pc |-> "start", port |-> [fin |-> TRUE, h |-> 2 * DefaultPort],
   autoOpen |-> TRUE, command |-> <<>>, stdout |-> <<>>, stderr |-> <<>>,
   exitCode |-> -1, spawned |-> FALSE, listening |-> FALSE]

\* console.error
Error(c, text) == [c EXCEPT !.stderr = Append(@, text)]

\* usage(code): the usage text on stdout, then process.exit(code)
usage(c, code) ==
  [c EXCEPT !.stdout = Append(@, UsageText), !.pc = "exited", !.exitCode = code]

\* the loop without its end at the first unrecognized token: the token joins
\* the command and the tokens after it are still read as options
RECURSIVE ParseLoopGreedy(_, _, _)
ParseLoopGreedy(args, i, c) ==
  IF i > Len(args) THEN c
  ELSE IF args[i] = "--" THEN [c EXCEPT !.command = @ \o Drop(args, i)]
  ELSE IF args[i] \in {"--port", "-p"} THEN
    IF i + 1 > Len(args) \/ args[i + 1] = ""
    THEN usage(Error(c, "Missing value after --port"), 1)
    ELSE IF InvalidPort(Number(args[i + 1]))
    THEN usage(Error(c, "Invalid port"), 1)
    ELSE ParseLoopGreedy(args, i + 2, [c EXCEPT !.port = Number(args[i + 1])])
  ELSE IF args[i] = "--no-open" THEN
    ParseLoopGreedy(args, i + 1, [c EXCEPT !.autoOpen = FALSE])
  ELSE IF args[i] \in {"--help", "-h"} THEN usage(c, 0)
  ELSE ParseLoopGreedy(args, i + 1, [c EXCEPT !.command = Append(@, args[i])])

\* the loop of parseArgs from argv[i] on
RECURSIVE ParseLoop(_, _, _)
ParseLoop(args, i, c) ==
  IF i > Len(args) THEN c
  ELSE IF args[i] = "--" THEN [c EXCEPT !.command = @ \o Drop(args, i)]
  ELSE IF args[i] \in {"--port", "-p"} THEN
    IF i + 1 > Len(args) \/ args[i + 1] = ""
    THEN usage(Error(c, "Missing value after --port"), 1)
    ELSE IF InvalidPort(Number(args[i + 1]))
    THEN usage(Error(c, "Invalid port"), 1)
    ELSE ParseLoop(args, i + 2, [c EXCEPT !.port = Number(args[i + 1])])
  ELSE IF args[i] = "--no-open" THEN
    ParseLoop(args, i + 1, [c EXCEPT !.autoOpen = FALSE])
  ELSE IF args[i] \in {"--help", "-h"} THEN usage(c, 0)
  ELSE [c EXCEPT !.command = @ \o Drop(args, i - 1)]

parseArgs(args, c) ==
  LET r == ParseLoop(args, 1, c)
  IN  IF r.pc = "exited" THEN r
      ELSE IF Len(r.command) = 0 THEN usage(Error(r, "No command provided."), 1)
      ELSE [r EXCEPT !.pc = "parsed"]

\* const args = parseArgs(process.argv.slice(2))
ParseArgs ==
  /\ cli.pc = "start"
  /\ cli' = parseArgs(argv, cli)
  /\ UNCHANGED <<argv, hostVars, readVars, hubVars, stopVars, inVars>>

\* ptyProxy = startPtyProxy(args.command, ...)
StartPtyProxy ==
  /\ cli.pc = "parsed"
  /\ cli' = [cli EXCEPT !.pc = "spawned", !.spawned = TRUE]
  /\ UNCHANGED <<argv, hostVars, readVars, hubVars, stopVars, inVars>>

\* server = Bun.serve({ port: args.port, ... })
Serve ==
  /\ cli.pc = "spawned"
  /\ cli' = [cli EXCEPT !.pc = "serving", !.listening = TRUE]
  /\ UNCHANGED <<argv, hostVars, readVars, hubVars, stopVars, inVars>>

\* the program once it serves the command of these arguments
Serving(args) ==
  [parseArgs(args, CliStart) EXCEPT !.pc = "serving", !.spawned = TRUE,
                                    !.listening = TRUE]

(***************************************************************************)
(* The session from the moment the server listens.                         *)
(***************************************************************************)
InitSession ==
  /\ emitted = 0
  /\ junk = 0
  /\ hostPhase = "running"
  /\ exitCode = "null"
  /\ pipe = <<>>
  /\ buffer = <<>>
  /\ readerDone = FALSE
  /\ exitSent = FALSE
  /\ exitedHandled = FALSE
  /\ outputDecoder = DecoderInit
  /\ clients = <<>>
  /\ conn = [v \in Viewers |-> "new"]
  /\ received = [v \in Viewers |-> <<>>]
  /\ bcastLog = <<>>
  /\ regAt = [v \in Viewers |-> -1]
  /\ endAt = [v \in Viewers |-> -1]
  /\ broadcastThrew = FALSE
  /\ shuttingDown = FALSE
  /\ timersArmed = 0
  /\ timersFired = 0
  /\ serverStopped = FALSE
  /\ killSignalled = FALSE
  /\ stopRaised = FALSE
  /\ bridgeExited = FALSE
  /\ hostIn = <<>>
  /\ messageRaised = FALSE

\* the child of the session runs prints one two-byte character
SessionText == <<233>>

Init ==
  /\ InitSession
  /\ childBytes = Utf8Encode(SessionText)
  /\ argv = <<"--", "bash">>
  /\ cli = Serving(argv)

Next ==
  \/ HostEmitOutput
  \/ HostEmitExit
  \/ HostExit
  \/ HostDie
  \/ ReadChunk
  \/ ReadDone
  \/ Exited
  \/ Open
  \/ Break
  \/ Close
  \/ TimerFire
  \/ handleShutdown
  \/ ExitHook

Spec == Init /\ [][Next]_vars

\* the event loop runs every callback that is ready: the exited promise's
\* and the timer's
Fairness ==
  /\ WF_vars(Exited)
  /\ WF_vars(TimerFire)

\* the session whose viewers' transports do not fail
NextLive ==
  \/ HostEmitOutput
  \/ HostEmitExit
  \/ HostExit
  \/ HostDie
  \/ ReadChunk
  \/ ReadDone
  \/ Exited
  \/ Open
  \/ Close
  \/ TimerFire
  \/ handleShutdown
  \/ ExitHook

SpecLive == Init /\ [][NextLive]_vars /\ Fairness

(***************************************************************************)
(* The output path alone, for every text the child may print: the host,    *)
(* the read loop and the exited callback; no viewers, no shutdown.         *)
(***************************************************************************)
InitCodec ==
  /\ InitSession
  /\ childBytes \in {Utf8Encode(t) : t \in SeqsUpTo(Chars, MaxChars)}
  /\ argv = <<"--", "bash">>
  /\ cli = Serving(argv)

NextCodec ==
  \/ HostEmitOutput
  \/ HostEmitExit
  \/ HostExit
  \/ HostDie
  \/ ReadChunk
  \/ ReadDone
  \/ Exited

SpecCodec == InitCodec /\ [][NextCodec]_vars

(***************************************************************************)
(* The output path of the session's child with a host that also prints     *)
(* junk lines, and viewers that connect.                                   *)
(***************************************************************************)
NextLines ==
  \/ HostEmitOutput
  \/ HostEmitJunk
  \/ HostEmitExit
  \/ HostExit
  \/ HostDie
  \/ ReadChunk
  \/ ReadDone
  \/ Exited
  \/ Open

SpecLines == Init /\ [][NextLines]_vars

(***************************************************************************)
(* The way in: viewers that connect, send and leave, and a signal.         *)
(***************************************************************************)
NextInbound ==
  \/ Open
  \/ Close
  \/ Message
  \/ handleShutdown

SpecInbound == Init /\ [][NextInbound]_vars

(***************************************************************************)
(* The start of the program, for every short argument list.                *)
(***************************************************************************)
InitCli ==
  /\ InitSession
  /\ childBytes = Utf8Encode(SessionText)
  /\ argv \in SeqsUpTo(Tokens, MaxArgs)
  /\ cli = CliStart

NextCli ==
  \/ ParseArgs
  \/ StartPtyProxy
  \/ Serve

SpecCli == InitCli /\ [][NextCli]_vars

(***************************************************************************)
(* Properties of the session.                                              *)
(***************************************************************************)
ExitIndexes == {i \in DOMAIN bcastLog : bcastLog[i].type = "exit"}

OutputIndexes == {i \in DOMAIN bcastLog : bcastLog[i].type = "output"}

\* the read loop and the exited callback have both finished
Drained == readerDone /\ exitedHandled

\* C1: exactly one Exit frame is broadcast per session: never more than one,
\* and one once the host's stdout has ended and its exit has been handled.
C1_ExactlyOneExit ==
  /\ Cardinality(ExitIndexes) <= 1
  /\ Drained => Cardinality(ExitIndexes) = 1

\* C2: no Output frame is broadcast after an Exit frame.
C2_NoOutputAfterExit ==
  \A i \in ExitIndexes : \A j \in OutputIndexes : j < i

\* the frames broadcast between a socket's registration and its end
Window(v) ==
  SubSeq(bcastLog, regAt[v] + 1,
         IF endAt[v] = -1 THEN Len(bcastLog) ELSE endAt[v])

\* C3: after its initial frame a socket has received exactly the frames
\* broadcast while it was registered and its transport worked, in broadcast
\* order; so sockets registered over the same interval received the same.
C3_ExactDelivery ==
  \A v \in Viewers :
    received[v] = IF regAt[v] = -1 THEN <<>>
                  ELSE <<OutputFrame(<<>>)>> \o Window(v)

\* a socket registered from the start and one registered after the first
\* broadcast, both still open after the second
C3_Witness ==
  /\ conn[1] = "open" /\ conn[2] = "open"
  /\ regAt[1] = 0 /\ regAt[2] = 1
  /\ Len(bcastLog) = 2
  /\ Len(received[1]) = 1 + Len(bcastLog)
  /\ Len(received[2]) = Len(bcastLog)

\* the frames handed to broadcast in this step
NewFrames == SubSeq(bcastLog', Len(bcastLog) + 1, Len(bcastLog'))

Registered(v) == \E i \in DOMAIN clients : clients[i] = v

\* C4: in a step that broadcasts while a registered socket's transport has
\* failed, every registered working socket still gets each frame of the
\* step, and no exception leaves broadcast.
C4_FailureIsolated ==
  [][((\E b \in Viewers : Registered(b) /\ conn[b] = "broken") /\ NewFrames # <<>>)
       => /\ \A v \in Viewers :
               (Registered(v) /\ conn[v] = "open")
                 => received'[v] = received[v] \o NewFrames
          /\ ~broadcastThrew']_vars

\* the socket registered first has failed, and the one after it in the Set
\* has received a frame broadcast after that failure
C4_Witness ==
  /\ clients = <<1, 2>>
  /\ conn[1] = "broken" /\ conn[2] = "open"
  /\ regAt[2] <= endAt[1]
  /\ endAt[1] < Len(bcastLog)
  /\ Len(received[2]) = 1 + Len(bcastLog) - regAt[2]
  /\ ~broadcastThrew

\* a send to this socket has failed: a frame was broadcast after it broke
WriteFailed(v) == regAt[v] # -1 /\ endAt[v] # -1 /\ endAt[v] < Len(bcastLog)
                  /\ conn[v] = "broken"

StopCalled == TimerFire \/ handleShutdown \/ ExitHook

\* C8: stop() never raises, and a call after the first one, or after the
\* host has gone, leaves the host and the signal flag as they were.
C8_StopIdempotent ==
  /\ [](~stopRaised)
  /\ [][(StopCalled /\ (killSignalled \/ hostPhase = "gone"))
          => UNCHANGED <<killSignalled, stopRaised, hostVars>>]_vars

\* stop() has run from the signal handler, the grace timer and the exit hook,
\* the last call after the host had gone
C8_Witness ==
  /\ bridgeExited
  /\ timersFired = 1
  /\ killSignalled
  /\ hostPhase = "gone"
  /\ ~stopRaised

\* C9: the step that connects a socket registers it and sends it one empty
\* Output frame, its first, and sends nothing to any other socket; sockets
\* connected before any broadcast and still open have received the same.
C9_InitialFrame ==
  /\ [][\A v \in Viewers :
          (conn[v] = "new" /\ conn'[v] = "open")
            => /\ received'[v] = <<OutputFrame(<<>>)>>
               /\ Registered(v)'
               /\ \A u \in Viewers \ {v} : received'[u] = received[u]]_vars
  /\ [](\A u, v \in Viewers :
          (conn[u] = "open" /\ conn[v] = "open" /\ regAt[u] = 0 /\ regAt[v] = 0)
            => received[u] = received[v])

\* a socket that connected after a broadcast holds only its initial frame,
\* beside one that connected before and holds the broadcast frame too
C9_Witness ==
  /\ conn[1] = "open" /\ conn[2] = "open"
  /\ regAt[1] = 0 /\ regAt[2] >= 1
  /\ received[2] = <<OutputFrame(<<>>)>>
  /\ Len(received[1]) >= 2

(***************************************************************************)
(* Properties of the output path.                                          *)
(***************************************************************************)
\* the text of the Output frames broadcast so far, joined in order
RECURSIVE OutputText(_)
OutputText(log) ==
  IF log = <<>> THEN <<>>
  ELSE (IF Head(log).type = "output" THEN Head(log).data ELSE <<>>)
       \o OutputText(Tail(log))

\* the child's whole output has been wrapped, read and handled, and the exit
\* has been broadcast
OutputComplete ==
  /\ emitted = Len(childBytes)
  /\ pipe = <<>>
  /\ buffer = <<>>
  /\ ExitIndexes # {}

\* C7: once the whole output has been handled and the exit broadcast, the
\* Output frames joined are the text the child printed, whatever the split.
C7_SplitDecoding ==
  OutputComplete => Utf8Encode(OutputText(bcastLog)) = childBytes

(***************************************************************************)
(* Properties of the way in.                                               *)
(***************************************************************************)
\* C6: every resize line written to the host carries cols >= 1 and rows >= 1.
C6_ResizeValidated ==
  \A i \in DOMAIN hostIn :
    hostIn[i].type = "resize" => (hostIn[i].cols >= 1 /\ hostIn[i].rows >= 1)

(***************************************************************************)
(* Properties of the command line.                                         *)
(***************************************************************************)
PortFlags == {"--port", "-p"}

\* the tokens that spell an integer in [1,65535]
ValidPortTokens == {"8081", "65535"}

\* only options before this point: --no-open, or a port flag with a valid value
RECURSIVE OptionsOnly(_)
OptionsOnly(args) ==
  \/ args = <<>>
  \/ Head(args) = "--no-open" /\ OptionsOnly(Tail(args))
  \/ /\ Len(args) >= 2
     /\ Head(args) \in PortFlags
     /\ args[2] \in ValidPortTokens
     /\ OptionsOnly(Drop(args, 2))

\* a port flag is met as an option and its value is missing or no valid port
BadPortFlag(args) ==
  \E i \in 1..Len(args) :
    /\ args[i] \in PortFlags
    /\ OptionsOnly(Take(args, i - 1))
    /\ (i = Len(args) \/ args[i + 1] \notin ValidPortTokens)

\* C10: when a port flag is parsed with a missing or invalid value, the
\* program prints the usage text and exits with code 1, the host not spawned
\* and the server not listening, whatever follows the value.
C10_BadPortExits ==
  (cli.pc # "start" /\ BadPortFlag(argv))
    => /\ cli.pc = "exited"
       /\ cli.exitCode = 1
       /\ \E i \in DOMAIN cli.stdout : cli.stdout[i] = UsageText
       /\ ~cli.spawned
       /\ ~cli.listening

\* a port above the range, followed by a command, has ended the program
C10_Witness ==
  /\ Len(argv) >= 3
  /\ argv[1] \in PortFlags
  /\ argv[2] = "65536"
  /\ argv[3] = "bash"
  /\ cli.pc = "exited"
  /\ cli.exitCode = 1

\* the words occur in the text, one after the other
Contains(text, words) ==
  \E i \in 1..(Len(text) - Len(words) + 1) :
    SubSeq(text, i, i + Len(words) - 1) = words

HelpFlags == {"--help", "-h"}

\* a help flag is met as an option
HelpFlag(args) ==
  \E i \in 1..Len(args) :
    args[i] \in HelpFlags /\ OptionsOnly(Take(args, i - 1))

\* C11: when --help or -h is parsed as an option, the program prints on
\* standard output a usage text that contains "Usage: webghost", prints
\* nothing on standard error and exits with code 0, the host not spawned and
\* the server not listening, also when no command is given.
C11_HelpPrintsUsage ==
  (cli.pc # "start" /\ HelpFlag(argv))
    => /\ cli.pc = "exited"
       /\ cli.exitCode = 0
       /\ \E i \in DOMAIN cli.stdout :
            Contains(cli.stdout[i], <<"Usage:", "webghost">>)
       /\ cli.stderr = <<>>
       /\ ~cli.spawned
       /\ ~cli.listening

\* the tokens parseArgs knows
Recognized == {"--"} \cup PortFlags \cup {"--no-open"} \cup HelpFlags

\* the options end at args[i]: the separator or an unrecognized token
CommandStart(args, i) ==
  /\ OptionsOnly(Take(args, i - 1))
  /\ (args[i] = "--" \/ args[i] \notin Recognized)

\* the command the claim names, when the options end at args[i]
ExpectedCommand(args, i) ==
  IF args[i] = "--" THEN Drop(args, i) ELSE Drop(args, i - 1)

\* the port the options before args[i] ask for
ExpectedPort(args, i) ==
  LET flags == {j \in 1..(i - 2) : args[j] \in PortFlags
                                    /\ OptionsOnly(Take(args, j - 1))}
  IN  IF flags = {} THEN [fin |-> TRUE, h |-> 2 * DefaultPort]
      ELSE Number(args[(CHOOSE j \in flags : \A k \in flags : k <= j) + 1])

\* the options are all there is, but for a separator at the very end
NoCommand(args) ==
  \/ OptionsOnly(args)
  \/ /\ Len(args) >= 1
     /\ args[Len(args)] = "--"
     /\ OptionsOnly(Take(args, Len(args) - 1))

\* C12: the parsed command is every token after the first separator, or,
\* when an unrecognized token comes before any separator, that token and
\* every token after it; the tokens of the command are not read as options
\* (port and autoOpen come from the tokens before it only); an argument list
\* with an empty command prints the usage text and exits with code 1.
C12_CommandParsed ==
  cli.pc # "start" =>
    /\ \A i \in 1..Len(argv) :
         (CommandStart(argv, i) /\ ExpectedCommand(argv, i) # <<>>)
           => /\ cli.pc # "exited"
              /\ cli.command = ExpectedCommand(argv, i)
              /\ cli.port = ExpectedPort(argv, i)
              /\ cli.autoOpen = (\A j \in 1..(i - 1) : argv[j] # "--no-open")
    /\ cli.pc # "exited" =>
         \E i \in 1..Len(argv) :
           CommandStart(argv, i) /\ ExpectedCommand(argv, i) # <<>>
    /\ NoCommand(argv)
         => /\ cli.pc = "exited"
            /\ cli.exitCode = 1
            /\ \E i \in DOMAIN cli.stdout : cli.stdout[i] = UsageText
            /\ ~cli.spawned

\* a command whose second token is a help flag has been parsed and is served
C12_Witness ==
  /\ argv = <<"--no-open", "bash", "--help">>
  /\ cli.pc = "serving"
  /\ cli.command = <<"bash", "--help">>
  /\ ~cli.autoOpen

(***************************************************************************)
(* Properties of the end of the session.                                   *)
(***************************************************************************)
\* the host has written an exit line: read already, or still on its way
HostSentExit ==
  \/ exitSent
  \/ \E i \in DOMAIN pipe : pipe[i].type = "exit"
  \/ \E i \in DOMAIN buffer : buffer[i].type = "exit"

\* C13: when the host process has ended without ever writing an exit line,
\* an Exit frame with the process's exit code and no signal is eventually
\* broadcast and the teardown is scheduled: once the exited callback has
\* run, the log holds that frame and the grace timer has been armed.
C13_SyntheticExit ==
  /\ [](( exitedHandled /\ ~HostSentExit)
         => /\ ExitIndexes # {}
            /\ \A i \in ExitIndexes : bcastLog[i] = ExitFrame(exitCode, "null")
            /\ shuttingDown
            /\ timersArmed >= 1)
  /\ ((hostPhase = "gone" /\ ~HostSentExit)
        ~> (ExitIndexes # {} /\ shuttingDown /\ timersArmed >= 1))

\* the host failed with code 1 before any exit line, and a viewer has the
\* Exit frame the exited callback made
C13_Witness ==
  /\ hostPhase = "gone"
  /\ exitCode = "1"
  /\ ~HostSentExit
  /\ exitedHandled
  /\ \E v \in Viewers :
       /\ received[v] # <<>>
       /\ received[v][Len(received[v])] = ExitFrame("1", "null")

\* a step that broadcasts an Exit frame
ExitBroadcast ==
  /\ Len(bcastLog') > Len(bcastLog)
  /\ bcastLog'[Len(bcastLog')].type = "exit"

\* C14: the step that broadcasts the Exit frame stops neither the server nor
\* the host: it arms the grace timer, and apart from the signal handler the
\* server is stopped by the timer's callback only; the timer is armed once
\* in a session however many exit events are handled; under fairness of the
\* timer, an exit event is followed by the teardown.
C14_GraceTimer ==
  /\ [][ExitBroadcast
          => /\ UNCHANGED <<serverStopped, killSignalled, timersFired>>
             /\ timersArmed' = 1]_vars
  /\ [][(serverStopped' /\ ~serverStopped) => (TimerFire \/ handleShutdown)]_vars
  /\ [](timersArmed <= 1)
  /\ [](timersFired <= timersArmed)
  /\ (ExitIndexes # {}
        ~> (timersFired = 1 /\ serverStopped
            /\ (killSignalled \/ hostPhase = "gone")))

\* two exit events were handled, one timer was armed and it has fired
C14_Witness ==
  /\ Cardinality(ExitIndexes) = 2
  /\ timersArmed = 1
  /\ timersFired = 1
  /\ serverStopped

\* the teardown has run: from the grace timer or from the signal handler
Stopped == serverStopped

\* C15: in Stopped every viewer transport has been closed and no viewer is
\* registered, the server accepts no connection, and stop() has been called
\* on the host client (the host was signalled, or had gone already).
C15_StoppedClosed ==
  Stopped
    => /\ clients = <<>>
       /\ \A v \in Viewers : conn[v] \in {"new", "closed"}
       /\ ~ENABLED Open
       /\ (killSignalled \/ hostPhase = "gone")

\* C16: once the session is in Stopped, no input or resize line is written
\* to the host: a step from a Stopped state leaves the host's stdin as it is.
C16_NoWriteAfterStopped ==
  [][Stopped => hostIn' = hostIn]_vars

\* the signal handler has run: the server is stopped and no timer has fired
Signalled == serverStopped /\ timersFired = 0

\* C17: after the signal handler has run, the decoder is not flushed, no
\* frame is broadcast to the viewers and no grace timer is armed, also when
\* the host exits because of stop().
C17_SignalBypassesDrain ==
  [][Signalled => UNCHANGED <<outputDecoder, bcastLog, received, shuttingDown,
                              timersArmed>>]_vars

(***************************************************************************)
(* Properties of the read loop.                                            *)
(***************************************************************************)
\* the units without the lines that are no json, and their newlines
RECURSIVE WithoutJunk(_)
WithoutJunk(buf) ==
  IF buf = <<>> THEN <<>>
  ELSE IF Head(buf).tok = "junk"
  THEN IF Len(buf) >= 2 /\ buf[2].tok = "nl"
       THEN WithoutJunk(Drop(buf, 2))
       ELSE WithoutJunk(Tail(buf))
  ELSE <<Head(buf)>> \o WithoutJunk(Tail(buf))

\* a read that takes units off the pipe
ReadStep == Len(pipe') < Len(pipe)

\* C18: a line that is no json is discarded and changes nothing: a read
\* leaves the decoder, the viewers, the broadcast log, the shutdown flag and
\* timer and exitSent as the same read would with the bad lines taken out of
\* what it read, so no frame is broadcast for a bad line and the lines after
\* it, in the same chunk or a later one, are processed in order; the read
\* loop keeps running.
C18_BadLineDiscarded ==
  [][ReadStep =>
       LET chunk == Take(pipe, Len(pipe) - Len(pipe'))
           r == ForwardLines([s |-> Bridge, exitSent |-> exitSent],
                             WithoutJunk(buffer \o chunk))
       IN  /\ outputDecoder' = r.st.s.dec
           /\ bcastLog' = r.st.s.log
           /\ received' = r.st.s.recv
           /\ clients' = r.st.s.clients
           /\ shuttingDown' = r.st.s.shuttingDown
           /\ timersArmed' = r.st.s.timersArmed
           /\ exitSent' = r.st.exitSent
           /\ WithoutJunk(buffer') = r.buffer
           /\ readerDone' = readerDone
           /\ UNCHANGED <<hostPhase, serverStopped, killSignalled>>]_vars

\* the host printed a bad line among its lines; all was read, and the frames
\* hold the child's text and then the one Exit frame
C18_Witness ==
  /\ junk >= 1
  /\ emitted = Len(childBytes)
  /\ pipe = <<>>
  /\ buffer = <<>>
  /\ exitSent
  /\ OutputText(bcastLog) = SessionText
  /\ Cardinality(ExitIndexes) = 1
  /\ bcastLog[Len(bcastLog)].type = "exit"
  /\ \E v \in Viewers : received[v] = <<OutputFrame(<<>>)>> \o bcastLog

(***************************************************************************)
(* Properties of the viewers' messages.                                    *)
(***************************************************************************)
\* the payloads that are no Input or Resize frame
Malformed ==
  {raw \in Payloads : raw.json # "object" \/ raw.type \notin {"input", "resize"}}

\* C19: a payload that is no Input or Resize frame (no json, the json null,
\* an object of unknown type) is ignored: the handler raises no error,
\* writes nothing to the host, sends nothing to a viewer, and leaves the
\* viewers' registration and the lifecycle as they were.
C19_MalformedIgnored ==
  [][\A v \in Viewers, raw \in Malformed :
       MessageOf(v, raw)
         => /\ ~messageRaised'
            /\ hostIn' = hostIn
            /\ UNCHANGED <<hubVars, stopVars, hostVars, readVars>>]_vars

(***************************************************************************)
(* Properties of a viewer that connects after the exit.                    *)
(***************************************************************************)
\* the Exit frames among a socket's frames
ExitsReceived(v) == {i \in DOMAIN received[v] : received[v][i].type = "exit"}

\* the Exit frames broadcast while the socket was registered and working
ExitsInWindow(v) ==
  {i \in ExitIndexes : i > regAt[v] /\ (endAt[v] = -1 \/ i <= endAt[v])}

\* C20: every connected viewer is told of the exit: a viewer that is
\* connected once an Exit frame has been broadcast, also one that connected
\* in the grace period after that broadcast, holds an Exit frame.
C20_LateViewerInformed ==
  \A v \in Viewers :
    (conn[v] = "open" /\ ExitIndexes # {}) => ExitsReceived(v) # {}

\* C20 as the code has it: nothing is replayed at registration, so a socket
\* holds as many Exit frames as were broadcast while it was registered; one
\* that connects in the grace period after the broadcast holds none.
C20_NoExitReplay ==
  \A v \in Viewers :
    conn[v] # "new"
      => /\ Cardinality(ExitsReceived(v)) = Cardinality(ExitsInWindow(v))
         /\ (regAt[v] >= Len(bcastLog) => received[v] = <<OutputFrame(<<>>)>>)

\* a viewer connected in the grace period, after the Exit frame and before
\* the timer fired, and holds only its initial frame
C20_Witness ==
  /\ timersArmed = 1
  /\ timersFired = 0
  /\ ~serverStopped
  /\ \E v \in Viewers :
       /\ conn[v] = "open"
       /\ \E i \in ExitIndexes : i <= regAt[v]
       /\ received[v] = <<OutputFrame(<<>>)>>

(***************************************************************************)
(* Properties of the Output frames.                                        *)
(***************************************************************************)
\* C21: no empty Output frame is broadcast: an output event whose decoding
\* yields no text, and a flush at exit that yields none, make no frame, so
\* the only empty Output frame a socket receives is its first frame, the
\* one sent when it connects.
C21_NoEmptyOutput ==
  /\ \A i \in DOMAIN bcastLog : bcastLog[i] # OutputFrame(<<>>)
  /\ \A v \in Viewers :
       \A i \in DOMAIN received[v] :
         received[v][i] = OutputFrame(<<>>) => i = 1

\* the first byte of the child's two-byte character was read as a line of
\* its own and is pending in the decoder; the connected viewer got no frame
\* for it
C21_Witness ==
  /\ emitted = 1
  /\ pipe = <<>>
  /\ buffer = <<>>
  /\ outputDecoder # DecoderInit
  /\ bcastLog = <<>>
  /\ \E v \in Viewers :
       conn[v] = "open" /\ received[v] = <<OutputFrame(<<>>)>>

====
